---- MODULE Spec2Model ----
(***************************************************************************)
(* pyzbar.decode (src/pyzbar/pyzbar.py): the binding that hands a pixel    *)
(* buffer to the native zbar library and turns the library's symbol list   *)
(* into a list of Decoded(data, type).                                     *)
(*                                                                         *)
(* A caller is one thread of the host program. Each caller runs decode     *)
(* step by step, one action per statement / native call, so that the       *)
(* native calls of several callers interleave. The native library is the   *)
(* environment: its handles live in two heaps (scanners, images), its      *)
(* answers that the binding cannot predict (a null handle, a negative      *)
(* scan result) are nondeterministic choices.                              *)
(*                                                                         *)
(* The division of line 97 is modelled as Python 3 true division.          *)
(***************************************************************************)
EXTENDS Integers, Sequences, FiniteSets, TLC

(* ------------------------------ bounds --------------------------------- *)

\* longest pixel buffer (bytes)
MaxLen == 2
\* largest width and height
MaxDim == 1
\* most barcodes depicted in one pixel buffer
MaxSymbols == 2
\* calls of decode one caller makes
MaxCalls == 2
\* handles the native library can have alive per kind
MaxHandles == 2

(* --------------------------- program constants ------------------------- *)

FOURCC_L800 == 808466521

\* ZBarSymbol.QRCODE, ZBarSymbol.CODE128: the two symbologies decode enables
QRCODE == 64
CODE128 == 128
\* a symbology decode does not enable (zbar's EAN-13)
EAN13 == 13
\* a zbar symbol type value the binding's enum has no member for
DATABAR == 34

\* ZBarConfig.CFG_ENABLE
CFG_ENABLE == 0

\* wrapper.ZBarSymbol: the IntEnum from native type values to names
ZBarSymbol == (QRCODE :> "QRCODE") @@ (CODE128 :> "CODE128") @@ (EAN13 :> "EAN13")

\* the type values the native library can report
NativeTypes == {QRCODE, CODE128, EAN13, DATABAR}

(* ------------------------------ inputs --------------------------------- *)

SeqsUpTo(S, n) == UNION {[1..k -> S] : k \in 0..n}

\* sample payloads: empty, b"A", and b"A\x00B" with a NUL byte inside
Payloads == {<<>>, <<65>>, <<65, 0, 66>>}

\* a barcode depicted in a pixel buffer: its symbology and its payload
Barcodes == [type : NativeTypes, data : Payloads]

\* a pixel buffer: len(pixels), and what the pixels depict. A buffer with
\* no pixel depicts nothing.
PixelBuffers ==
    {b \in [len : 0..MaxLen, barcodes : SeqsUpTo(Barcodes, MaxSymbols)] :
        b.len = 0 => b.barcodes = <<>>}

\* the tuple (pixels, width, height) of line 94
Inputs == [pixels : PixelBuffers, width : 0..MaxDim, height : 0..MaxDim]

\* inputs of the concurrent callers: well-shaped 1x1 buffers that depict
\* different things
ConcInputs ==
    {[pixels |-> [len |-> 1, barcodes |-> bs], width |-> 1, height |-> 1] :
        bs \in { <<>>,
                 <<[type |-> QRCODE, data |-> <<65>>]>>,
                 <<[type |-> CODE128, data |-> <<>>], [type |-> EAN13, data |-> <<65>>]>> }}

Callers == {1, 2}
Sequential == {1}

Handles == 1..MaxHandles

(* ------------------------------- state --------------------------------- *)

VARIABLES
    pc,          \* [caller -> position in decode]
    image,       \* [caller -> the argument of decode]
    results,     \* [caller -> the list `results`]
    scanner,     \* [caller -> the handle `scanner` (0: null / unbound)]
    img,         \* [caller -> the handle `img` (0: null / unbound)]
    decoded,     \* [caller -> the value `decoded` of line 113]
    symbol,      \* [caller -> the pointer `symbol`: a node index, 0: null]
    exc,         \* [caller -> the exception in flight, "none" if none]
    calls,       \* [caller -> calls of decode started]
    first,       \* [caller -> how the previous call on the same input ended]
    trace,       \* [caller -> the native calls of the current call]
    scanners,    \* the native library's scanner objects, by handle
    images,      \* the native library's image objects, by handle
    zbarDefault  \* the symbologies a new native scanner has enabled

vars == <<pc, image, results, scanner, img, decoded, symbol, exc, calls,
          first, trace, scanners, images, zbarDefault>>

NoInput == [pixels |-> [len |-> 0, barcodes |-> <<>>], width |-> 0, height |-> 0]
NoPrev == [outcome |-> "none", exc |-> "none", results |-> <<>>]

FreeScanner == [live |-> FALSE, owner |-> 0, cfg |-> {}]
FreeImage == [live |-> FALSE, owner |-> 0, format |-> 0, width |-> 0, height |-> 0,
              data |-> NoInput.pixels, scanned |-> FALSE, syms |-> <<>>]

Init ==
    /\ pc = [p \in Callers |-> "idle"]
    /\ image = [p \in Callers |-> NoInput]
    /\ results = [p \in Callers |-> <<>>]
    /\ scanner = [p \in Callers |-> 0]
    /\ img = [p \in Callers |-> 0]
    /\ decoded = [p \in Callers |-> 0]
    /\ symbol = [p \in Callers |-> 0]
    /\ exc = [p \in Callers |-> "none"]
    /\ calls = [p \in Callers |-> 0]
    /\ first = [p \in Callers |-> NoPrev]
    /\ trace = [p \in Callers |-> <<>>]
    /\ scanners = [h \in 0..MaxHandles |-> FreeScanner]
    /\ images = [h \in 0..MaxHandles |-> FreeImage]
    /\ zbarDefault \in SUBSET {EAN13, DATABAR}


(* -------------------------- native library ----------------------------- *)

\* a handle is usable by caller p: non-null, alive, and created by p
Valid(heap, h, p) == h # 0 /\ heap[h].live /\ heap[h].owner = p

\* a native call of the current call of decode: the function, its scanner
\* and image arguments (0: none), what it returned, and whether every
\* handle it was given was usable
Event(o, s, i, r, v) == [op |-> o, sc |-> s, im |-> i, ret |-> r, ok |-> v]

Log(p, e) == trace' = [trace EXCEPT ![p] = Append(@, e)]

\* the handles a create call may return: null, or the lowest free handle
FreshOrNull(heap) ==
    {0} \cup {h \in Handles : ~heap[h].live /\ \A g \in Handles : g < h => heap[g].live}

\* zbar_image_scanner_set_config(scanner, sym, CFG_ENABLE, 1)
zbar_image_scanner_set_config(s, sym, cfg, val) ==
    IF cfg = CFG_ENABLE
    THEN [scanners EXCEPT ![s].cfg = IF val = 1 THEN @ \cup {sym} ELSE @ \ {sym}]
    ELSE scanners

\* what zbar_scan_image finds: the barcodes the data depicts, in order,
\* whose symbology the scanner has enabled
Found(s, i) ==
    SelectSeq(images[i].data.barcodes, LAMBDA b : b.type \in scanners[s].cfg)

\* the scan can succeed only on an 8 bits-per-pixel image whose size
\* matches its data
Scannable(i) ==
    /\ images[i].format = FOURCC_L800
    /\ images[i].width * images[i].height = images[i].data.len

\* symbol.contents of node n of image i (n beyond the list: a dangling
\* pointer, which reads as an empty node)
SymbolAt(i, n) ==
    IF n \in 1..Len(images[i].syms)
    THEN images[i].syms[n]
    ELSE [type |-> 0, data |-> <<>>]

\* zbar_symbol_get_data: the payload as the C buffer zbar keeps it,
\* NUL-terminated
zbar_symbol_get_data(node) == node.data \o <<0>>

\* zbar_symbol_get_data_length
zbar_symbol_get_data_length(node) == Len(node.data)

\* zbar_symbol_next: the next node, null after the last
zbar_symbol_next(i, n) == IF n < Len(images[i].syms) THEN n + 1 ELSE 0

\* zbar_image_first_symbol: the first node, null if the list is empty
zbar_image_first_symbol(i) == IF Len(images[i].syms) > 0 THEN 1 ELSE 0

(* ------------------------------ helpers -------------------------------- *)

\* ctypes.string_at(ptr) with no size: the bytes before the first NUL
string_at(mem) ==
    LET nul == CHOOSE k \in 1..Len(mem) :
                   mem[k] = 0 /\ \A j \in 1..(k - 1) : mem[j] # 0
    IN SubSeq(mem, 1, nul - 1)

Decoded(d, t) == [data |-> d, type |-> t]

\* line 97-98: 8 * len(pixels) / (width * height) is 8
BppIs8(n, w, h) == 8 * n = 8 * (w * h)

\* a results list that outlives the call (a module-level list, or a mutable
\* default argument): the call starts from the previous call's list
StaleResults(p) == first[p].results

\* line 101
NewResults(p) == <<>>

\* an image handle kept in one place for all callers
SharedImg(p) == img[1]

\* the handle decode passes as `scanner`, and as `img`
ScannerOf(p) == scanner[p]
ImgOf(p) == img[p]


(* ------------------------------ decode --------------------------------- *)

Goto(p, l) == pc' = [pc EXCEPT ![p] = l]
Raise(p, e) == exc' = [exc EXCEPT ![p] = e]

\* how the call that just ended went, kept for the call that repeats it
Ended(p) == [outcome |-> pc[p], exc |-> exc[p], results |-> results[p]]

\* the locals of a call that starts
Enter(p, i) ==
    /\ image' = [image EXCEPT ![p] = i]
    /\ results' = [results EXCEPT ![p] = <<>>]
    /\ scanner' = [scanner EXCEPT ![p] = 0]
    /\ img' = [img EXCEPT ![p] = 0]
    /\ decoded' = [decoded EXCEPT ![p] = 0]
    /\ symbol' = [symbol EXCEPT ![p] = 0]
    /\ exc' = [exc EXCEPT ![p] = "none"]
    /\ trace' = [trace EXCEPT ![p] = <<>>]
    /\ calls' = [calls EXCEPT ![p] = @ + 1]
    /\ Goto(p, "bpp")

\* decode(image), line 94: a caller calls decode on a tuple
Call(p, In) ==
    /\ pc[p] = "idle"
    /\ calls[p] < MaxCalls
    /\ \E i \in In : Enter(p, i)
    /\ first' = [first EXCEPT ![p] = NoPrev]
    /\ UNCHANGED <<scanners, images, zbarDefault>>

\* the caller calls decode again, on the same tuple
CallAgain(p) ==
    /\ pc[p] \in {"returned", "raised"}
    /\ calls[p] < MaxCalls
    /\ Enter(p, image[p])
    /\ first' = [first EXCEPT ![p] = Ended(p)]
    /\ UNCHANGED <<scanners, images, zbarDefault>>

\* lines 97-99: bits-per-pixel. A zero width * height makes the division
\* raise ZeroDivisionError before the comparison.
ComputeBpp(p) ==
    /\ pc[p] = "bpp"
    /\ LET n == image[p].pixels.len
           w == image[p].width
           h == image[p].height
       IN IF w * h = 0
          THEN Raise(p, "ZeroDivisionError") /\ Goto(p, "raised")
          ELSE IF ~BppIs8(n, w, h)
               THEN Raise(p, "PyZbarError") /\ Goto(p, "raised")
               ELSE Goto(p, "results") /\ UNCHANGED exc
    /\ UNCHANGED <<image, results, scanner, img, decoded, symbol, calls, first,
                   trace, scanners, images, zbarDefault>>

\* line 101: results = []
InitResults(p) ==
    /\ pc[p] = "results"
    /\ results' = [results EXCEPT ![p] = NewResults(p)]
    /\ Goto(p, "scanner_create")
    /\ UNCHANGED <<image, scanner, img, decoded, symbol, exc, calls, first,
                   trace, scanners, images, zbarDefault>>

\* line 102, zbar_image_scanner() lines 64-69: a null scanner raises, and
\* there is nothing to destroy
ScannerCreate(p) ==
    /\ pc[p] = "scanner_create"
    /\ \E h \in FreshOrNull(scanners) :
        /\ Log(p, Event("zbar_image_scanner_create", h, 0, h, TRUE))
        /\ IF h = 0
           THEN /\ Raise(p, "PyZbarError")
                /\ Goto(p, "raised")
                /\ UNCHANGED <<scanner, scanners>>
           ELSE /\ scanners' = [scanners EXCEPT
                        ![h] = [live |-> TRUE, owner |-> p, cfg |-> zbarDefault]]
                /\ scanner' = [scanner EXCEPT ![p] = h]
                /\ Goto(p, "cfg_qrcode")
                /\ UNCHANGED exc
    /\ UNCHANGED <<image, results, img, decoded, symbol, calls, first, images,
                   zbarDefault>>

\* a zbar_image_scanner_set_config(scanner, sym, CFG_ENABLE, 1) of decode
SetConfig(p, at, sym, next) ==
    /\ pc[p] = at
    /\ LET s == ScannerOf(p)
       IN /\ Log(p, Event("zbar_image_scanner_set_config", s, 0, 0,
                          Valid(scanners, s, p)))
          /\ scanners' = IF s # 0 /\ scanners[s].live
                         THEN zbar_image_scanner_set_config(s, sym, CFG_ENABLE, 1)
                         ELSE scanners
    /\ Goto(p, next)
    /\ UNCHANGED <<image, results, scanner, img, decoded, symbol, exc, calls,
                   first, images, zbarDefault>>

\* lines 103-105
EnableQRCODE(p) == SetConfig(p, "cfg_qrcode", QRCODE, "cfg_code128")

\* lines 106-108
EnableCODE128(p) == SetConfig(p, "cfg_code128", CODE128, "image_create")

\* line 109, zbar_image() lines 41-46: a null image raises inside the
\* scanner's with block, whose exit destroys the scanner
ImageCreate(p) ==
    /\ pc[p] = "image_create"
    /\ \E h \in FreshOrNull(images) :
        /\ Log(p, Event("zbar_image_create", 0, h, h, TRUE))
        /\ IF h = 0
           THEN /\ Raise(p, "PyZbarError")
                /\ Goto(p, "scanner_destroy")
                /\ UNCHANGED <<img, images>>
           ELSE /\ images' = [images EXCEPT
                        ![h] = [FreeImage EXCEPT !.live = TRUE, !.owner = p]]
                /\ img' = [img EXCEPT ![p] = h]
                /\ Goto(p, "set_format")
                /\ UNCHANGED exc
    /\ UNCHANGED <<image, results, scanner, decoded, symbol, calls, first,
                   scanners, zbarDefault>>

\* a setter of the image object: the image becomes new if it is alive
SetImage(p, at, op, new, next) ==
    /\ pc[p] = at
    /\ LET i == ImgOf(p)
       IN /\ Log(p, Event(op, 0, i, 0, Valid(images, i, p)))
          /\ images' = IF i # 0 /\ images[i].live
                       THEN [images EXCEPT ![i] = new]
                       ELSE images
    /\ Goto(p, next)
    /\ UNCHANGED <<image, results, scanner, img, decoded, symbol, exc, calls,
                   first, scanners, zbarDefault>>

\* line 110
SetFormat(p) ==
    SetImage(p, "set_format", "zbar_image_set_format",
             [images[ImgOf(p)] EXCEPT !.format = FOURCC_L800], "set_size")

\* line 111
SetSize(p) ==
    SetImage(p, "set_size", "zbar_image_set_size",
             [images[ImgOf(p)] EXCEPT !.width = image[p].width,
                                      !.height = image[p].height], "set_data")

\* line 112
SetData(p) ==
    SetImage(p, "set_data", "zbar_image_set_data",
             [images[ImgOf(p)] EXCEPT !.data = image[p].pixels], "scan")

\* `if decoded <= 0`: an image without symbols taken for a failure
ScanFailedOrEmpty(r) == r <= 0

\* line 114: decoded < 0
ScanFailed(r) == r < 0

\* lines 113-115: the native scan answers a negative value, or attaches
\* the symbols it found to the image and answers their number
ScanImage(p) ==
    /\ pc[p] = "scan"
    /\ LET s == ScannerOf(p)
           i == ImgOf(p)
           usable == Valid(scanners, s, p) /\ Valid(images, i, p)
       IN \E r \in {-1} \cup (IF Scannable(i) THEN {Len(Found(s, i))} ELSE {}) :
            /\ Log(p, Event("zbar_scan_image", s, i, r, usable))
            /\ decoded' = [decoded EXCEPT ![p] = r]
            /\ IF ScanFailed(r)
               THEN /\ Raise(p, "PyZbarError")
                    /\ Goto(p, "image_destroy")
                    /\ UNCHANGED images
               ELSE /\ images' = [images EXCEPT ![i].syms = Found(s, i),
                                                ![i].scanned = TRUE]
                    /\ Goto(p, "first_symbol")
                    /\ UNCHANGED exc
    /\ UNCHANGED <<image, results, scanner, img, symbol, calls, first,
                   scanners, zbarDefault>>

\* line 117
FirstSymbol(p) ==
    /\ pc[p] = "first_symbol"
    /\ LET i == ImgOf(p)
           n == zbar_image_first_symbol(i)
       IN /\ Log(p, Event("zbar_image_first_symbol", 0, i, n, Valid(images, i, p)))
          /\ symbol' = [symbol EXCEPT ![p] = n]
    /\ Goto(p, "walk")
    /\ UNCHANGED <<image, results, scanner, img, decoded, exc, calls, first,
                   scanners, images, zbarDefault>>

\* lines 118-126: one iteration of the walk. ZBarSymbol(value) raises
\* ValueError for a value the enum has no member for.
WalkSymbol(p) ==
    /\ pc[p] = "walk"
    /\ symbol[p] # 0
    /\ LET i == ImgOf(p)
           node == SymbolAt(i, symbol[p])
           data == string_at(zbar_symbol_get_data(node))
           usable == Valid(images, i, p)
       IN IF node.type \in DOMAIN ZBarSymbol
          THEN /\ results' = [results EXCEPT
                       ![p] = Append(@, Decoded(data, ZBarSymbol[node.type]))]
               /\ symbol' = [symbol EXCEPT ![p] = zbar_symbol_next(i, @)]
               /\ trace' = [trace EXCEPT ![p] = @ \o
                       << Event("zbar_symbol_get_data", 0, i, symbol[p], usable),
                          Event("zbar_symbol_next", 0, i, symbol[p], usable) >>]
               /\ UNCHANGED <<pc, exc>>
          ELSE /\ Log(p, Event("zbar_symbol_get_data", 0, i, symbol[p], usable))
               /\ Raise(p, "ValueError")
               /\ Goto(p, "image_destroy")
               /\ UNCHANGED <<results, symbol>>
    /\ UNCHANGED <<image, scanner, img, decoded, calls, first, scanners, images,
                   zbarDefault>>

\* line 118, symbol is null: the loop and the image's with block end
WalkDone(p) ==
    /\ pc[p] = "walk"
    /\ symbol[p] = 0
    /\ Goto(p, "image_destroy")
    /\ UNCHANGED <<image, results, scanner, img, decoded, symbol, exc, calls,
                   first, trace, scanners, images, zbarDefault>>

\* the destroy in an except clause instead: it runs only for an exception
OnlyOnError(p) == exc[p] # "none"

\* zbar_image(), lines 45-48: the destroy is in a finally clause, so it
\* runs on every way out of the with block, exception or not
ImageExitDestroys(p) == TRUE

\* no try/finally around the yield: an exception skips the destroy
OnlyOnSuccess(p) == exc[p] = "none"

\* zbar_image_scanner(), lines 68-71: likewise
ScannerExitDestroys(p) == TRUE

\* lines 47-48: the image's with block is left
ImageDestroy(p) ==
    /\ pc[p] = "image_destroy"
    /\ LET i == img[p]
       IN IF ImageExitDestroys(p)
          THEN /\ Log(p, Event("zbar_image_destroy", 0, i, 0, Valid(images, i, p)))
               /\ images' = IF i # 0 /\ images[i].live
                            THEN [images EXCEPT ![i] = FreeImage]
                            ELSE images
          ELSE UNCHANGED <<trace, images>>
    /\ Goto(p, "scanner_destroy")
    /\ UNCHANGED <<image, results, scanner, img, decoded, symbol, exc, calls,
                   first, scanners, zbarDefault>>

\* lines 70-71: the scanner's with block is left; then line 128 (return
\* results), or the exception leaves decode
ScannerDestroy(p) ==
    /\ pc[p] = "scanner_destroy"
    /\ LET s == scanner[p]
       IN IF ScannerExitDestroys(p)
          THEN /\ Log(p, Event("zbar_image_scanner_destroy", s, 0, 0,
                               Valid(scanners, s, p)))
               /\ scanners' = IF s # 0 /\ scanners[s].live
                              THEN [scanners EXCEPT ![s] = FreeScanner]
                              ELSE scanners
          ELSE UNCHANGED <<trace, scanners>>
    /\ Goto(p, IF exc[p] = "none" THEN "returned" ELSE "raised")
    /\ UNCHANGED <<image, results, scanner, img, decoded, symbol, exc, calls,
                   first, images, zbarDefault>>

Step(p, In) ==
    \/ Call(p, In)
    \/ CallAgain(p)
    \/ ComputeBpp(p)
    \/ InitResults(p)
    \/ ScannerCreate(p)
    \/ EnableQRCODE(p)
    \/ EnableCODE128(p)
    \/ ImageCreate(p)
    \/ SetFormat(p)
    \/ SetSize(p)
    \/ SetData(p)
    \/ ScanImage(p)
    \/ FirstSymbol(p)
    \/ WalkSymbol(p)
    \/ WalkDone(p)
    \/ ImageDestroy(p)
    \/ ScannerDestroy(p)

\* one caller, every input
Next == \E p \in Sequential : Step(p, Inputs)

Spec == Init /\ [][Next]_vars

\* two callers at once, on the concurrent inputs
ConcNext == \E p \in Callers : Step(p, ConcInputs)

ConcSpec == Init /\ [][ConcNext]_vars


(* ------------------------------ claims --------------------------------- *)

Exited(p) == pc[p] \in {"returned", "raised"}
Started(p) == pc[p] \notin {"idle", "bpp"}
Shape(p) == image[p].width * image[p].height
WellShaped(p) == image[p].pixels.len = Shape(p)

\* the events of caller p's current call with the given function
Calls(p, o) == {k \in 1..Len(trace[p]) : trace[p][k].op = o}
Returned(p, o, r) == \E k \in Calls(p, o) : trace[p][k].ret = r

\* the symbologies a scanner of decode has enabled once configured
Enabled == zbarDefault \cup {QRCODE, CODE128}

\* the barcodes of caller p's buffer that its scan reports
Reported(p) == SelectSeq(image[p].pixels.barcodes, LAMBDA b : b.type \in Enabled)

AllNamed(bs) == \A k \in 1..Len(bs) : bs[k].type \in DOMAIN ZBarSymbol

\* C1: whenever len(pixels) differs from width * height, width * height = 0
\* included, decode raises PyZbarError, with no result list and before any
\* native handle was created.
C1_MalformedShapeIsPyZbarError ==
    \A p \in Callers :
        (Started(p) /\ ~WellShaped(p)) =>
            /\ pc[p] = "raised"
            /\ exc[p] = "PyZbarError"
            /\ trace[p] = <<>>
            /\ scanner[p] = 0 /\ img[p] = 0

\* C2 as stated, for the calls that get to the native library: a call on a
\* well-shaped input returns a list, whatever the native library answers
C2_OnlyShapeAborts ==
    \A p \in Callers :
        (Exited(p) /\ WellShaped(p) /\ trace[p] # <<>>) => pc[p] = "returned"

\* the reasons for which decode raises
AbortCause(p) ==
    \/ Shape(p) = 0
    \/ ~WellShaped(p)
    \/ Returned(p, "zbar_image_scanner_create", 0)
    \/ Returned(p, "zbar_image_create", 0)
    \/ \E k \in Calls(p, "zbar_scan_image") : trace[p][k].ret < 0
    \/ /\ \E k \in Calls(p, "zbar_scan_image") : trace[p][k].ret >= 0
       /\ ~AllNamed(Reported(p))

\* C2, amended: a call of decode ends in an error exactly when width * height
\* is 0 (ZeroDivisionError), the byte length differs from width * height,
\* a native create answers null, the native scan answers a negative value
\* (PyZbarError each), or the scan reports a symbol whose type value is no
\* member of ZBarSymbol (ValueError); every other call returns a list.
C2_AbortsExactlyOnCause ==
    \A p \in Callers :
        Exited(p) =>
            /\ pc[p] = "raised" <=> AbortCause(p)
            /\ pc[p] = "raised" <=> exc[p] # "none"
            /\ exc[p] = "ZeroDivisionError" <=> Shape(p) = 0
            /\ exc[p] = "ValueError" =>
                   \E k \in Calls(p, "zbar_scan_image") : trace[p][k].ret >= 0

C2_Witness ==
    \E p \in Callers :
        /\ pc[p] = "raised" /\ WellShaped(p) /\ Shape(p) # 0
        /\ exc[p] = "PyZbarError"
        /\ Returned(p, "zbar_image_create", 0)

\* C3: when the scan of a well-shaped input succeeds and there is no first
\* symbol, decode returns the empty list without an error, and both native
\* handles are destroyed when it returns.
C3_NoSymbolsGivesEmptyList ==
    \A p \in Callers :
        (Exited(p) /\ Returned(p, "zbar_image_first_symbol", 0)) =>
            /\ pc[p] = "returned"
            /\ exc[p] = "none"
            /\ results[p] = <<>>
            /\ WellShaped(p)
            /\ scanner[p] # 0 /\ ~scanners[scanner[p]].live
            /\ img[p] # 0 /\ ~images[img[p]].live
            /\ Cardinality(Calls(p, "zbar_image_destroy")) = 1
            /\ Cardinality(Calls(p, "zbar_image_scanner_destroy")) = 1

C3_Witness ==
    \E p \in Callers :
        /\ pc[p] = "returned"
        /\ Returned(p, "zbar_image_first_symbol", 0)
        /\ image[p].pixels.len = 1 /\ image[p].width = 1 /\ image[p].height = 1
        /\ image[p].pixels.barcodes = <<>>

\* C4: the data of every Decoded entry is the payload of its symbol, byte
\* for byte, whatever bytes the payload holds.
C4_DataIsPayload ==
    \A p \in Callers :
        (pc[p] \in {"walk", "image_destroy"} /\ Valid(images, img[p], p)) =>
            \A k \in 1..Len(results[p]) :
                /\ k <= Len(images[img[p]].syms)
                /\ Len(results[p][k].data) =
                       zbar_symbol_get_data_length(images[img[p]].syms[k])
                /\ results[p][k].data = images[img[p]].syms[k].data

\* C5: the returned list holds no two entries with the same data and type.
C5_NoDuplicateEntries ==
    \A p \in Callers :
        pc[p] = "returned" =>
            \A j, k \in 1..Len(results[p]) :
                j # k => results[p][j] # results[p][k]

\* C6: every entry's type is one of the symbologies decode enabled.
C6_OnlyEnabledTypes ==
    \A p \in Callers :
        \A k \in 1..Len(results[p]) :
            results[p][k].type \in {ZBarSymbol[QRCODE], ZBarSymbol[CODE128]}

\* C7: a call that repeats the previous call's input and returns, as the
\* previous call did, returns the same list.
C7_RepeatedCallSameOutput ==
    \A p \in Callers :
        (pc[p] = "returned" /\ first[p].outcome = "returned") =>
            results[p] = first[p].results

C7_Witness ==
    \E p \in Callers :
        /\ pc[p] = "returned" /\ first[p].outcome = "returned"
        /\ Len(results[p]) = 2

\* what caller p's own buffer gives
OwnEntries(p) ==
    [k \in 1..Len(Reported(p)) |->
        Decoded(Reported(p)[k].data, ZBarSymbol[Reported(p)[k].type])]

\* C8: with callers running decode at once, every native call of a caller
\* is given only handles that are alive and that this caller created, and
\* the list a caller returns is the symbols of its own buffer.
C8_CallsAreIsolated ==
    \A p \in Callers :
        /\ \A k \in 1..Len(trace[p]) : trace[p][k].ok
        /\ pc[p] = "returned" => results[p] = OwnEntries(p)

C8_Witness ==
    /\ pc[1] = "returned" /\ Len(results[1]) = 1
    /\ pc[2] = "walk" /\ Len(results[2]) = 2
    /\ image[1] # image[2]
    /\ calls[2] = 2

\* the create of a kind is matched by one later destroy of its handle
Paired(p, create, destroy) ==
    \A k \in Calls(p, create) :
        trace[p][k].ret # 0 =>
            Cardinality({j \in Calls(p, destroy) :
                /\ j > k
                /\ trace[p][j].sc = trace[p][k].sc
                /\ trace[p][j].im = trace[p][k].im}) = 1

\* C9: on every way out of decode each non-null handle was destroyed once,
\* the image before the scanner; no destroy is given a null handle and no
\* native call a destroyed one.
C9_CreateDestroyPaired ==
    \A p \in Callers :
        /\ \A k \in 1..Len(trace[p]) : trace[p][k].ok
        /\ Exited(p) =>
            /\ Paired(p, "zbar_image_scanner_create", "zbar_image_scanner_destroy")
            /\ Paired(p, "zbar_image_create", "zbar_image_destroy")
            /\ Cardinality(Calls(p, "zbar_image_scanner_destroy")) <= 1
            /\ Cardinality(Calls(p, "zbar_image_destroy")) <= 1
            /\ \A i \in Calls(p, "zbar_image_destroy"),
                  s \in Calls(p, "zbar_image_scanner_destroy") : i < s
            /\ \A h \in Handles :
                /\ ~(scanners[h].live /\ scanners[h].owner = p)
                /\ ~(images[h].live /\ images[h].owner = p)

C9_Witness ==
    \E p \in Callers :
        /\ pc[p] = "raised" /\ exc[p] = "ValueError"
        /\ Len(results[p]) = 1
        /\ Cardinality(Calls(p, "zbar_image_destroy")) = 1
        /\ Cardinality(Calls(p, "zbar_image_scanner_destroy")) = 1

\* C10: after a scan that did not fail, the walk ends with one entry per
\* node of the symbol list, in list order, entry k carrying the data and the
\* symbology name of node k; the first symbol is asked for only after a scan
\* that returned a non-negative value.
C10_EveryNodeInOrder ==
    \A p \in Callers :
        /\ \A f \in Calls(p, "zbar_image_first_symbol") :
               \E k \in Calls(p, "zbar_scan_image") : k < f /\ trace[p][k].ret >= 0
        /\ ( /\ pc[p] = "image_destroy"
             /\ decoded[p] >= 0
             /\ Valid(images, img[p], p)
             /\ AllNamed(images[img[p]].syms) ) =>
                /\ exc[p] = "none"
                /\ Len(results[p]) = Len(images[img[p]].syms)
                /\ \A k \in 1..Len(results[p]) :
                       results[p][k] = Decoded(images[img[p]].syms[k].data,
                                               ZBarSymbol[images[img[p]].syms[k].type])

====
